---- MODULE Spec2Model ----
(***************************************************************************)
(* A model of scripts/main.js: the canvas confetti burst (Confetti,       *)
(* ConfettiManager, Utils.debounce) and the DOM background confetti        *)
(* (createPoisson, Confetto, poof).                                        *)
(*                                                                         *)
(* Numbers are fixed point.  Times are milliseconds.  Speeds, the          *)
(* rotation speed and radii are in millionths (of px/ms, px).  Positions   *)
(* are in thousandths of a px.  Points of [0, 1] lie on a grid of          *)
(* One == eccentricity * RadiusUnits steps.                                *)
(***************************************************************************)
EXTENDS Integers, Sequences, FiniteSets, TLC

VARIABLES
  \* createPoisson: its locals, and the value it returned
  domain, measure, spline, poissonPc, splineOut,
  \* one Confetti driven on its own, and the clock of its updatePosition calls
  item, itemNow,
  \* ConfettiManager, the window and the canvas context
  window, canvas, confetti, lastUpdated, now, rafPending, drawLog, frameNo,
  nextId, bursts, lastCall,
  \* Utils.debounce's closure, the browser's timers, and a record of calls
  timeout, timers, nextTimer, calls, invoked,
  \* enableBackgroundConfetti's closure and the page
  started, bodyHasContainer, containerKids, domConfetti, timer, spawnPending,
  frame, loopPending, prev, domNow, nextHandle, spawned, frameLog, idleFrames

poissonVars == <<domain, measure, spline, poissonPc, splineOut>>
itemVars == <<item, itemNow>>
canvasVars == <<window, canvas, confetti, lastUpdated, now, rafPending,
                drawLog, frameNo, nextId, bursts, lastCall>>
resizeVars == <<timeout, timers, nextTimer, calls, invoked>>
domVars == <<started, bodyHasContainer, containerKids, domConfetti, timer,
             spawnPending, frame, loopPending, prev, domNow, nextHandle,
             spawned, frameLog, idleFrames>>
vars == <<poissonVars, itemVars, canvasVars, resizeVars, domVars>>

(***************************************************************************)
(* Small helpers                                                           *)
(***************************************************************************)
Max(a, b) == IF a >= b THEN a ELSE b

\* Array.prototype.splice(at0, del, ...ins) on a 1-indexed sequence, at0 the
\* JavaScript (0-based) index
Splice(s, at0, del, ins) ==
  SubSeq(s, 1, at0) \o ins \o SubSeq(s, at0 + del + 1, Len(s))

(***************************************************************************)
(* createPoisson (1D maximal Poisson disc over [0, 1])                     *)
(***************************************************************************)
\* grid steps per radius
RadiusUnits == 2

eccentricity == 10

\* the number 1 on the grid; radius = 1/eccentricity
One == eccentricity * RadiusUnits

radius == One \div eccentricity

radius2 == radius + radius

\* Math.random() is k / RandDen for k in 0 .. RandDen-1
RandDen == One - radius2

Randoms == 0 .. (RandDen - 1)

\* dart = measure * random()
Dart(m, k) == (m * k) \div RandDen

RECURSIVE FindDart(_, _, _, _)
\* the loop "Find where dart lies": i is the 0-based index, acc the running
\* measure; the result is the dart's position and whether it was pushed
FindDart(dom, dart, i, acc) ==
  IF i >= Len(dom) THEN [dart |-> dart, pushed |-> FALSE]
  ELSE LET a == dom[i + 1]
           b == dom[i + 2]
           interval == b - a
       IN IF dart < acc + interval
            THEN [dart |-> dart + (a - acc), pushed |-> TRUE]
            ELSE FindDart(dom, dart, i + 2, acc + interval)

RECURSIVE UpdateDomain(_, _, _, _)
\* the loop "Update the domain", from the last interval down; i is 0-based
UpdateDomain(dom, i, c, d) ==
  IF i <= 0 THEN dom
  ELSE LET l == i - 1
           a == dom[l + 1]
           b == dom[i + 1]
           next == IF a >= c /\ a < d
                     THEN IF b > d THEN [dom EXCEPT ![l + 1] = d]
                                   ELSE Splice(dom, l, 2, <<>>)
                   ELSE IF a < c /\ b > c
                     THEN IF b <= d THEN [dom EXCEPT ![i + 1] = c]
                                    ELSE Splice(dom, i, 0, <<c, d>>)
                   ELSE dom
       IN UpdateDomain(next, i - 2, c, d)

RECURSIVE Measure(_, _)
\* the loop "Re-measure the domain"
Measure(dom, i) ==
  IF i >= Len(dom) THEN 0
  ELSE (dom[i + 2] - dom[i + 1]) + Measure(dom, i + 2)

\* PoissonStep with nothing excluded to the left of a dart
PoissonStepOneSided(st, k) ==
  LET found == FindDart(st.domain, Dart(st.measure, k), 0, 0)
      dart == found.dart
      dom == UpdateDomain(st.domain, Len(st.domain) - 1, dart,
                          dart + radius2)
  IN [domain |-> dom,
      measure |-> Measure(dom, 0),
      spline |-> IF found.pushed THEN Append(st.spline, dart) ELSE st.spline]

\* one pass of "while (measure)" with random() = k / RandDen
PoissonStep(st, k) ==
  LET found == FindDart(st.domain, Dart(st.measure, k), 0, 0)
      dart == found.dart
      dom == UpdateDomain(st.domain, Len(st.domain) - 1, dart - radius,
                          dart + radius)
  IN [domain |-> dom,
      measure |-> Measure(dom, 0),
      spline |-> IF found.pushed THEN Append(st.spline, dart) ELSE st.spline]

PoissonStart ==
  [domain |-> <<radius, One - radius>>, measure |-> One - radius2,
   spline |-> <<0, One>>]

\* the fractional digits of n / One, most significant first, cut at
\* places digits
RECURSIVE FracDigits(_, _)
FracDigits(n, places) ==
  IF n = 0 \/ places = 0 THEN <<>>
  ELSE <<(n * 10) \div One>> \o FracDigits((n * 10) % One, places - 1)

StrPlaces == 6

\* String(x) of the grid point x (x / One in [0, 1]) as character codes:
\* "0", "1" or "0.ddd"; '.' is 46 and the digits are 48 .. 57
NumToString(x) ==
  LET frac == FracDigits(x % One, StrPlaces)
  IN <<48 + (x \div One)>> \o
     (IF frac = <<>> THEN <<>>
      ELSE <<46>> \o [k \in 1 .. Len(frac) |-> 48 + frac[k]])

RECURSIVE StrLess(_, _)
\* s < t as the default comparator of Array.prototype.sort orders strings
StrLess(s, t) ==
  IF t = <<>> THEN FALSE
  ELSE IF s = <<>> THEN TRUE
  ELSE IF Head(s) # Head(t) THEN Head(s) < Head(t)
  ELSE StrLess(Tail(s), Tail(t))

RECURSIVE InsertSorted(_, _)
InsertSorted(s, x) ==
  IF s = <<>> THEN <<x>>
  ELSE IF StrLess(NumToString(x), NumToString(Head(s)))
    THEN <<x>> \o s
    ELSE <<Head(s)>> \o InsertSorted(Tail(s), x)

RECURSIVE SortNoCompare(_)
\* spline.sort(): no comparator, so the elements are ordered as strings
SortNoCompare(s) ==
  IF s = <<>> THEN <<>>
  ELSE InsertSorted(SortNoCompare(Tail(s)), Head(s))

RECURSIVE CreatePoissonFrom(_, _)
\* createPoisson() run to its end with random() = k / RandDen at every draw
CreatePoissonFrom(st, k) ==
  IF st.measure = 0 THEN SortNoCompare(st.spline)
  ELSE CreatePoissonFrom(PoissonStep(st, k), k)

createPoisson(k) == CreatePoissonFrom(PoissonStart, k)

\* one iteration of the while loop
ThrowDart ==
  /\ poissonPc = "while"
  /\ measure # 0
  /\ \E k \in Randoms :
       LET st == PoissonStep([domain |-> domain, measure |-> measure,
                              spline |-> spline], k)
       IN /\ domain' = st.domain
          /\ measure' = st.measure
          /\ spline' = st.spline
  /\ UNCHANGED <<poissonPc, splineOut>>
  /\ UNCHANGED <<itemVars, canvasVars, resizeVars, domVars>>

\* the loop ends and the sorted spline is returned
ReturnSpline ==
  /\ poissonPc = "while"
  /\ measure = 0
  /\ splineOut' = SortNoCompare(spline)
  /\ poissonPc' = "done"
  /\ UNCHANGED <<domain, measure, spline>>
  /\ UNCHANGED <<itemVars, canvasVars, resizeVars, domVars>>

(***************************************************************************)
(* Utils and Confetti                                                      *)
(***************************************************************************)
Null == "null"

\* the values Utils.getRandomInRange(min, max, precision) can return, in
\* units of 10^-precision; lo and hi are min and max in those units.
\* floor(random * (max - min) + min) with random in [0, 1)
GetRandomInRange(lo, hi) ==
  IF lo <= hi THEN lo .. Max(lo, hi - 1) ELSE hi .. lo

\* the two ends of a range: the draws the model tries
Ends(S) ==
  {x \in S : (\A y \in S : x <= y) \/ (\A y \in S : x >= y)}

\* Utils.getScaleFactor(): log(innerWidth) / log(1920), in thousandths
GetScaleFactor(w) ==
  CASE w = 1920 -> 1000
    [] w = 1024 -> 917
    [] w = 360 -> 778

\* |cos| and |sin| of a launch angle in degrees, in thousandths
AbsCos(deg) ==
  CASE deg = 15 -> 966
    [] deg = 45 -> 707
    [] deg = 82 -> 139

AbsSin(deg) ==
  CASE deg = 15 -> 259
    [] deg = 45 -> 707
    [] deg = 82 -> 990

\* JavaScript truthiness of a string-or-null value
Truthy(v) == v # Null /\ v # ""

defaultConfettiConfig ==
  [confettiesNumber |-> 295,
   confettiRadius |-> 5,
   confettiColors |-> <<"#c3c77e", "#c7548c", "#6d3ba6", "#20c371",
                        "#11888d", "#a6660e", "#a40e0e", "#34a40e">>,
   emojies |-> <<>>,
   svgIcon |-> Null]

\* the random draws one constructor call makes
DrawSets ==
  [speedFactor : Ends(GetRandomInRange(900, 1700)),
   finalSpeedX : Ends(GetRandomInRange(200, 600)),
   rotationSpeed : Ends(GetRandomInRange(30, 70)),
   dragCoefficient : Ends(GetRandomInRange(500, 900)),
   rotationLeft : {0},
   rotationRight : {-200},
   emojiRotationAngle : {0},
   angle : {45},
   offset : {-75},
   pick : {0}]

\* Utils.getRandomItem(array) with floor(random * length) = k
GetRandomItem(array, k) == array[(k % Len(array)) + 1]

\* new Confetti({initialPosition, direction, radius, colors, emojis, svgIcon})
\* at time t in a window w pixels wide, with the draws rnd
NewConfetti(initialPosition, direction, radiusPx, colors, emojis, svgIcon, rnd, w, t, id, born) ==
  LET speedFactor == rnd.speedFactor * GetScaleFactor(w)
      special == Len(emojis) # 0 \/ Truthy(svgIcon)
      absCos == AbsCos(rnd.angle)
      absSin == AbsSin(rnd.angle)
      offset == rnd.offset
      position ==
        [x |-> initialPosition.x
                 + (IF direction = "left" THEN -offset ELSE offset) * absCos,
         y |-> initialPosition.y - offset * absSin]
  IN [id |-> id,
      speed |-> [x |-> speedFactor, y |-> speedFactor],
      finalSpeedX |-> rnd.finalSpeedX * 1000,
      rotationSpeed |-> IF special THEN 10000
                        ELSE rnd.rotationSpeed * GetScaleFactor(w),
      dragCoefficient |-> rnd.dragCoefficient,
      radius |-> [x |-> radiusPx * 1000000, y |-> radiusPx * 1000000],
      initialRadius |-> radiusPx * 1000000,
      rotationAngle |-> IF direction = "left" THEN rnd.rotationLeft
                        ELSE rnd.rotationRight,
      emojiRotationAngle |-> rnd.emojiRotationAngle,
      radiusYDirection |-> "down",
      absCos |-> absCos,
      absSin |-> absSin,
      position |-> position,
      initialPosition |-> position,
      color |-> IF special THEN Null ELSE GetRandomItem(colors, rnd.pick),
      emoji |-> IF Len(emojis) # 0 THEN GetRandomItem(emojis, rnd.pick)
                ELSE Null,
      svgIcon |-> Null,
      svgImage |-> IF Truthy(svgIcon) THEN svgIcon ELSE Null,
      createdAt |-> t,
      direction |-> direction,
      \* history: the constructor's initialPosition, the number of
      \* updatePosition calls, and the frame the particle was created after
      origin |-> initialPosition,
      updates |-> 0,
      born |-> born]

\* svgImage.onload
SvgOnload(c) == [c EXCEPT !.svgIcon = c.svgImage]

\* the drag step of updatePosition
DragSpeedX(c, deltaTime) ==
  IF c.speed.x > c.finalSpeedX
    THEN c.speed.x - c.dragCoefficient * deltaTime
    ELSE c.speed.x

\* whether updatePosition runs its rotation and radius block
IsPlainShape(c) == ~Truthy(c.emoji) /\ ~Truthy(c.svgIcon)

\* Flutter without the two assignments that pin radius.y to its limits
FlutterNoClamp(c, deltaTime) ==
  LET rs == Max(c.rotationSpeed - 10 * deltaTime, 0)
  IN IF c.radiusYDirection = "down"
       THEN LET ry == c.radius.y - deltaTime * rs
            IN IF ry <= 0
                 THEN [c EXCEPT !.rotationSpeed = rs, !.radius.y = ry,
                                !.radiusYDirection = "up"]
                 ELSE [c EXCEPT !.rotationSpeed = rs, !.radius.y = ry]
       ELSE LET ry == c.radius.y + deltaTime * rs
            IN IF ry >= c.initialRadius
                 THEN [c EXCEPT !.rotationSpeed = rs, !.radius.y = ry,
                                !.radiusYDirection = "down"]
                 ELSE [c EXCEPT !.rotationSpeed = rs, !.radius.y = ry]

\* the rotation-speed decay and the radius.y oscillation of updatePosition
Flutter(c, deltaTime) ==
  LET rs == Max(c.rotationSpeed - 10 * deltaTime, 0)
  IN IF c.radiusYDirection = "down"
       THEN LET ry == c.radius.y - deltaTime * rs
            IN IF ry <= 0
                 THEN [c EXCEPT !.rotationSpeed = rs, !.radius.y = 0,
                                !.radiusYDirection = "up"]
                 ELSE [c EXCEPT !.rotationSpeed = rs, !.radius.y = ry]
       ELSE LET ry == c.radius.y + deltaTime * rs
            IN IF ry >= c.initialRadius
                 THEN [c EXCEPT !.rotationSpeed = rs,
                                !.radius.y = c.initialRadius,
                                !.radiusYDirection = "down"]
                 ELSE [c EXCEPT !.rotationSpeed = rs, !.radius.y = ry]

\* Confetti.updatePosition(deltaTime, currentTime)
updatePosition(c, deltaTime, currentTime) ==
  LET elapsed == currentTime - c.createdAt
      sx == DragSpeedX(c, deltaTime)
      vx == (sx * (IF c.direction = "left" THEN -c.absCos ELSE c.absCos))
              \div 1000000
      vy == (c.speed.y * c.absSin) \div 1000000
      moved == [c EXCEPT !.speed.x = sx,
                         !.position.x = c.position.x + vx * deltaTime,
                         !.position.y = c.initialPosition.y - vy * elapsed
                                          + (5 * elapsed * elapsed) \div 8,
                         !.updates = c.updates + 1]
  IN IF IsPlainShape(moved) THEN Flutter(moved, deltaTime) ELSE moved

\* isVisible without the 100 px margin below the canvas
isVisibleNoMargin(c, canvasHeight) == c.position.y < canvasHeight * 1000

\* Confetti.isVisible(canvasHeight)
isVisible(c, canvasHeight) == c.position.y < (canvasHeight + 100) * 1000

\* Confetti.draw(context): the call it makes on the context, if any
draw(c) ==
  [id |-> c.id,
   op |-> IF Truthy(c.svgIcon) THEN "drawImage"
          ELSE IF Truthy(c.color) THEN "ellipse"
          ELSE IF Truthy(c.emoji) THEN "fillText"
          ELSE "none",
   y |-> c.position.y,
   radiusY |-> c.radius.y,
   updates |-> c.updates]

(***************************************************************************)
(* One Confetti on its own: every sequence of updatePosition calls         *)
(***************************************************************************)
NoItem == [id |-> 0]

ItemDeltas == {16, 1000}

MaxItemTime == 1500

ItemModes ==
  {[emojies |-> <<>>, svgIcon |-> Null],
   [emojies |-> <<"E">>, svgIcon |-> Null],
   [emojies |-> <<>>, svgIcon |-> "icon.svg"]}

\* item = new Confetti({...})
ItemCreate ==
  /\ item = NoItem
  /\ \E rnd \in DrawSets, mode \in ItemModes, direction \in {"left", "right"} :
       item' = NewConfetti([x |-> 0, y |-> 500000], direction,
                           defaultConfettiConfig.confettiRadius,
                           defaultConfettiConfig.confettiColors,
                           mode.emojies, mode.svgIcon, rnd,
                           window.innerWidth, itemNow, 1, 0)
  /\ UNCHANGED itemNow
  /\ UNCHANGED <<poissonVars, canvasVars, resizeVars, domVars>>

\* item.updatePosition(deltaTime, currentTime), deltaTime after the last call
ItemUpdate ==
  /\ item # NoItem
  /\ \E deltaTime \in ItemDeltas :
       /\ itemNow + deltaTime <= MaxItemTime
       /\ itemNow' = itemNow + deltaTime
       /\ item' = updatePosition(item, deltaTime, itemNow')
  /\ UNCHANGED <<poissonVars, canvasVars, resizeVars, domVars>>

\* the icon image finishes loading
ItemOnload ==
  /\ item # NoItem
  /\ Truthy(item.svgImage)
  /\ ~Truthy(item.svgIcon)
  /\ item' = SvgOnload(item)
  /\ UNCHANGED itemNow
  /\ UNCHANGED <<poissonVars, canvasVars, resizeVars, domVars>>

(***************************************************************************)
(* ConfettiManager                                                         *)
(***************************************************************************)
\* the draws of successive constructor calls: Math.random as a table
\* entered at any index
DrawTable ==
  <<[speedFactor |-> 1699, finalSpeedX |-> 200, rotationSpeed |-> 69,
     dragCoefficient |-> 500, rotationLeft |-> 0, rotationRight |-> -200,
     emojiRotationAngle |-> 0, angle |-> 82, offset |-> -1, pick |-> 0],
    [speedFactor |-> 900, finalSpeedX |-> 599, rotationSpeed |-> 30,
     dragCoefficient |-> 899, rotationLeft |-> 199, rotationRight |-> -1,
     emojiRotationAngle |-> 6, angle |-> 15, offset |-> -150, pick |-> 7],
    [speedFactor |-> 1699, finalSpeedX |-> 599, rotationSpeed |-> 30,
     dragCoefficient |-> 899, rotationLeft |-> 100, rotationRight |-> -100,
     emojiRotationAngle |-> 3, angle |-> 15, offset |-> -1, pick |-> 3]>>

Seeds == {0}

DrawAt(seed, j) == DrawTable[((seed + j) % Len(DrawTable)) + 1]

\* {...defaultConfettiConfig, ...config}
MergeConfig(config) ==
  [f \in DOMAIN defaultConfettiConfig |->
     IF f \in DOMAIN config THEN config[f] ELSE defaultConfettiConfig[f]]

\* baseY = (5 * window.innerHeight) / 7
BaseY(win) == (5 * win.innerHeight * 1000) \div 7

\* the loop test with the half rounded down
BurstLoopTestFloor(i, confettiesNumber) == i < confettiesNumber \div 2

\* whether the loop test i < confettiesNumber / 2 passes
BurstLoopTest(i, confettiesNumber) == 2 * i < confettiesNumber

\* how many times the body of the for loop of addConfetti runs
BurstIterations(confettiesNumber) ==
  Cardinality({i \in 0 .. Max(confettiesNumber, 0) :
                 BurstLoopTest(i, confettiesNumber)})

\* the for loop of addConfetti: iteration i pushes a particle going right
\* from the left edge, then one going left from the right edge
BurstLoop(list, cfg, win, t, seed, id, born) ==
  list \o
  [j \in 1 .. (2 * BurstIterations(cfg.confettiesNumber)) |->
     IF j % 2 = 1
       THEN NewConfetti([x |-> 0, y |-> BaseY(win)], "right",
                        cfg.confettiRadius, cfg.confettiColors, cfg.emojies,
                        cfg.svgIcon, DrawAt(seed, j - 1), win.innerWidth, t,
                        id + j - 1, born)
       ELSE NewConfetti([x |-> win.innerWidth * 1000, y |-> BaseY(win)],
                        "left", cfg.confettiRadius, cfg.confettiColors,
                        cfg.emojies, cfg.svgIcon, DrawAt(seed, j - 1),
                        win.innerWidth, t, id + j - 1, born)]

\* ConfettiManager.addConfetti(config) on the list of live particles
addConfetti(list, config, win, t, seed, id, born) ==
  BurstLoop(list, MergeConfig(config), win, t, seed, id, born)

\* ConfettiManager.resetAndStart(config)
resetAndStart(list, config, win, t, seed, id, born) ==
  addConfetti(<<>>, config, win, t, seed, id, born)

\* ConfettiManager.resizeCanvas()
resizeCanvas(win) ==
  [width |-> win.innerWidth * win.devicePixelRatio,
   height |-> win.innerHeight * win.devicePixelRatio]

\* this.confetti.filter(item => { updatePosition; draw; return isVisible }):
\* the particles kept and the draw calls made, in order
FilterFrame(list, deltaTime, currentTime, canvasHeight) ==
  LET updated == [k \in DOMAIN list |->
                    updatePosition(list[k], deltaTime, currentTime)]
  IN [kept |-> SelectSeq(updated, LAMBDA it : isVisible(it, canvasHeight)),
      drawn |-> [k \in DOMAIN list |-> draw(updated[k])]]

\* a loop that asks for a next frame only while particles remain
LoopRescheduleIfAny(pending, list) ==
  IF list # <<>> THEN pending + 1 ELSE pending

\* the requestAnimationFrame call that ends loop(): the callbacks pending
\* after it, given those pending before and the list the frame left
LoopReschedule(pending, list) == pending + 1

MaxCount == 2

MaxBursts == 2

MaxNow == 3000

FrameDeltas == {500, 1000}

Windows ==
  {[innerWidth |-> 1920, innerHeight |-> 700, devicePixelRatio |-> 1],
   [innerWidth |-> 360, innerHeight |-> 640, devicePixelRatio |-> 2]}

\* the config objects callers pass: none (every default), a count, an emoji
\* list, an icon
Configs ==
  <<<<>>>> \o [n \in 1 .. (MaxCount + 1) |-> [confettiesNumber |-> n - 1]]
    \o <<[confettiesNumber |-> 2, emojies |-> <<"E">>],
         [confettiesNumber |-> 1, svgIcon |-> "icon.svg"]>>

\* manager.addConfetti(config)
AddConfetti ==
  /\ bursts < MaxBursts
  /\ \E ci \in DOMAIN Configs, seed \in Seeds :
       /\ confetti' = addConfetti(confetti, Configs[ci], window, now, seed,
                                  nextId, frameNo)
       /\ lastCall' = [op |-> "addConfetti",
                       count |-> MergeConfig(Configs[ci]).confettiesNumber,
                       before |-> Len(confetti)]
  /\ nextId' = nextId + (Len(confetti') - Len(confetti))
  /\ bursts' = bursts + 1
  /\ UNCHANGED <<window, canvas, lastUpdated, now, rafPending, drawLog,
                 frameNo>>
  /\ UNCHANGED <<poissonVars, itemVars, resizeVars, domVars>>

\* manager.resetAndStart(config)
ResetAndStart ==
  /\ bursts < MaxBursts
  /\ \E ci \in DOMAIN Configs, seed \in Seeds :
       /\ confetti' = resetAndStart(confetti, Configs[ci], window, now, seed,
                                    nextId, frameNo)
       /\ lastCall' = [op |-> "resetAndStart",
                       count |-> MergeConfig(Configs[ci]).confettiesNumber,
                       before |-> 0]
  /\ nextId' = nextId + Len(confetti')
  /\ bursts' = bursts + 1
  /\ UNCHANGED <<window, canvas, lastUpdated, now, rafPending, drawLog,
                 frameNo>>
  /\ UNCHANGED <<poissonVars, itemVars, resizeVars, domVars>>

\* the frame callback () => this.loop(), deltaTime after the frame before
Loop ==
  /\ rafPending > 0
  /\ \E deltaTime \in FrameDeltas :
       LET currentTime == now + deltaTime
           swept == FilterFrame(confetti, currentTime - lastUpdated,
                                currentTime, canvas.height)
       IN /\ currentTime <= MaxNow
          /\ now' = currentTime
          /\ lastUpdated' = currentTime
          /\ drawLog' = swept.drawn
          /\ confetti' = swept.kept
          /\ rafPending' = LoopReschedule(rafPending - 1, swept.kept)
  /\ frameNo' = frameNo + 1
  /\ UNCHANGED <<window, canvas, nextId, bursts, lastCall>>
  /\ UNCHANGED <<poissonVars, itemVars, resizeVars, domVars>>

\* the icon image of one live particle finishes loading
ImageLoads ==
  /\ \E k \in DOMAIN confetti :
       /\ Truthy(confetti[k].svgImage)
       /\ ~Truthy(confetti[k].svgIcon)
       /\ confetti' = [confetti EXCEPT ![k] = SvgOnload(confetti[k])]
  /\ UNCHANGED <<window, canvas, lastUpdated, now, rafPending, drawLog,
                 frameNo, nextId, bursts, lastCall>>
  /\ UNCHANGED <<poissonVars, itemVars, resizeVars, domVars>>

(***************************************************************************)
(* Utils.debounce(() => this.resizeCanvas(), 200) on window resize         *)
(***************************************************************************)
ResizeDelay == 200

MaxResizes == 3

MaxResizeTime == 800

TimeSteps == {50, 100, 200}

\* clearTimeout(id)
clearTimeout(pending, id) == {t \in pending : t.id # id}

\* setTimeout(() => func(...args), delay) at time t, returning id
setTimeout(pending, id, args, delay, t) ==
  pending \cup {[id |-> id, due |-> t + delay, args |-> args]}

\* the returned function without its clearTimeout
debouncedNoClear(pending, handle, id, args, delay, t) ==
  setTimeout(pending, id, args, delay, t)

\* the function debounce returns, called with args at time t: the timers
\* pending afterwards
debounced(pending, handle, id, args, delay, t) ==
  setTimeout(clearTimeout(pending, handle), id, args, delay, t)

\* a timer whose delay has run out; its callback runs before anything else
Due == {t \in timers : t.due <= now}

\* the window is resized: the resize event e reaches the debounced listener
WindowResize ==
  /\ Len(calls) < MaxResizes
  /\ Due = {}
  /\ window' \in Windows
  /\ LET e == Len(calls) + 1
     IN /\ timers' = debounced(timers, timeout, nextTimer, e, ResizeDelay,
                               now)
        /\ calls' = Append(calls, [at |-> now, arg |-> e])
  /\ timeout' = nextTimer
  /\ nextTimer' = nextTimer + 1
  /\ UNCHANGED <<canvas, confetti, lastUpdated, now, rafPending, drawLog,
                 frameNo, nextId, bursts, lastCall, invoked>>
  /\ UNCHANGED <<poissonVars, itemVars, domVars>>

\* a debounce timer fires: func(...args), that is this.resizeCanvas()
TimerFires ==
  /\ \E t \in Due :
       /\ timers' = timers \ {t}
       /\ invoked' = Append(invoked, [at |-> now, arg |-> t.args])
  /\ canvas' = resizeCanvas(window)
  /\ UNCHANGED <<window, confetti, lastUpdated, now, rafPending, drawLog,
                 frameNo, nextId, bursts, lastCall, timeout, nextTimer,
                 calls>>
  /\ UNCHANGED <<poissonVars, itemVars, domVars>>

\* time passes, up to the next timer that falls due
TimePasses ==
  /\ Due = {}
  /\ \E step \in TimeSteps :
       /\ now + step <= MaxResizeTime
       /\ \A t \in timers : now + step <= t.due
       /\ now' = now + step
  /\ UNCHANGED <<window, canvas, confetti, lastUpdated, rafPending, drawLog,
                 frameNo, nextId, bursts, lastCall, resizeVars>>
  /\ UNCHANGED <<poissonVars, itemVars, domVars>>

(***************************************************************************)
(* BackgroundConfetti.enableBackgroundConfetti: Confetto and poof          *)
(***************************************************************************)
deviation == 100

SplinePeriod == 7777

\* the draws of one Confetto: dy = dyMin + dyMax * random() and dTheta in
\* thousandths, dx = sin(dxThetaMin + dxThetaMax * random()) in thousandths,
\* x in px, theta in degrees, k the numerator of createPoisson's draws
ConfettoDraws ==
  {[x |-> 0, dx |-> -99, dy |-> 130, theta |-> 0, dTheta |-> 400, k |-> 0],
   [x |-> 300, dx |-> 198, dy |-> 309, theta |-> 359, dTheta |-> 699,
    k |-> RandDen - 1]}

\* new Confetto(theme): outer is the element it creates
Confetto(outer, rnd) ==
  [outer |-> outer,
   frame |-> 0,
   x |-> rnd.x * 1000,
   y |-> -deviation * 1000,
   dx |-> rnd.dx,
   dy |-> rnd.dy,
   theta |-> rnd.theta * 1000,
   dTheta |-> rnd.dTheta,
   splineX |-> createPoisson(rnd.k),
   seg |-> 0,
   updates |-> 0]

RECURSIVE SplineSegment(_, _, _, _)
\* while (phi >= this.splineX[j]) i = j++, with phi = num / SplinePeriod;
\* i and j are 0-based
SplineSegment(splineX, num, i, j) ==
  IF num * One >= splineX[j + 1] * SplinePeriod
    THEN SplineSegment(splineX, num, j, j + 1)
    ELSE i

\* confetto.update(height, delta): the confetto afterwards, and the value
\* returned
update(c, height, delta) ==
  LET f == c.frame + delta
      y == c.y + c.dy * delta
  IN [confetto |-> [c EXCEPT !.frame = f,
                             !.x = c.x + c.dx * delta,
                             !.y = y,
                             !.theta = c.theta + c.dTheta * delta,
                             !.seg = SplineSegment(c.splineX,
                                                   f % SplinePeriod, 0, 1),
                             !.updates = c.updates + 1],
      done |-> y > (height + deviation) * 1000]

\* container.removeChild(element)
removeChild(kids, el) == SelectSeq(kids, LAMBDA e : e # el)

RECURSIVE LoopBody(_, _, _, _, _, _)
\* for (var i = confetti.length-1; i >= 0; --i) from index i (0-based) on:
\* the list, the container's children, and the update calls made
LoopBody(list, kids, log, i, height, delta) ==
  IF i < 0 THEN [list |-> list, kids |-> kids, log |-> log]
  ELSE LET r == update(list[i + 1], height, delta)
           entry == [outer |-> r.confetto.outer, done |-> r.done]
       IN IF r.done
            THEN LoopBody(Splice(list, i, 1, <<>>),
                          removeChild(kids, r.confetto.outer),
                          Append(log, entry), i - 1, height, delta)
            ELSE LoopBody([list EXCEPT ![i + 1] = r.confetto], kids,
                          Append(log, entry), i - 1, height, delta)

RECURSIVE LoopBodyForward(_, _, _, _, _, _)
\* the same loop run from index 0 upwards
LoopBodyForward(list, kids, log, i, height, delta) ==
  IF i >= Len(list) THEN [list |-> list, kids |-> kids, log |-> log]
  ELSE LET r == update(list[i + 1], height, delta)
           entry == [outer |-> r.confetto.outer, done |-> r.done]
       IN IF r.done
            THEN LoopBodyForward(Splice(list, i, 1, <<>>),
                                 removeChild(kids, r.confetto.outer),
                                 Append(log, entry), i + 1, height, delta)
            ELSE LoopBodyForward([list EXCEPT ![i + 1] = r.confetto], kids,
                                 Append(log, entry), i + 1, height, delta)

SweepForward(list, kids, height, delta) ==
  LoopBodyForward(list, kids, <<>>, 0, height, delta)

\* the for loop of the frame callback
SweepConfetti(list, kids, height, delta) ==
  LoopBody(list, kids, <<>>, Len(list) - 1, height, delta)

MaxSpawned == 3

MaxDomTime == 10000

MaxIdleFrames == 2

DomDeltas == {1000, 2000}

\* whether the addConfetto timer can still produce a particle
SchedulerStopped == spawned >= MaxSpawned

\* poof(), called once by enableBackgroundConfetti(): the container is
\* appended, addConfetto runs once and arms its timer, a frame is requested
Poof ==
  /\ ~started
  /\ frame = 0
  /\ started' = TRUE
  /\ bodyHasContainer' = TRUE
  /\ \E rnd \in ConfettoDraws :
       domConfetti' = Append(domConfetti, Confetto(spawned + 1, rnd))
  /\ containerKids' = Append(containerKids, spawned + 1)
  /\ spawned' = spawned + 1
  /\ timer' = nextHandle
  /\ spawnPending' = TRUE
  /\ loopPending' = TRUE
  /\ nextHandle' = nextHandle + 1
  /\ UNCHANGED <<frame, prev, domNow, frameLog, idleFrames>>
  /\ UNCHANGED <<poissonVars, itemVars, canvasVars, resizeVars>>

\* the timer callback addConfetto
AddConfetto ==
  /\ spawnPending
  /\ ~SchedulerStopped
  /\ \E rnd \in ConfettoDraws :
       domConfetti' = Append(domConfetti, Confetto(spawned + 1, rnd))
  /\ containerKids' = Append(containerKids, spawned + 1)
  /\ spawned' = spawned + 1
  /\ timer' = nextHandle
  /\ spawnPending' = TRUE
  /\ nextHandle' = nextHandle + 1
  /\ UNCHANGED <<started, bodyHasContainer, frame, loopPending, prev, domNow,
                 frameLog, idleFrames>>
  /\ UNCHANGED <<poissonVars, itemVars, canvasVars, resizeVars>>

\* the frame callback loop(timestamp)
DomLoop ==
  /\ loopPending
  /\ \E step \in DomDeltas :
       LET timestamp == domNow + step
           delta == IF prev # 0 THEN timestamp - prev ELSE 0
           swept == SweepConfetti(domConfetti, containerKids,
                                  window.innerHeight, delta)
           again == timer # 0 \/ Len(swept.list) # 0
       IN /\ timestamp <= MaxDomTime
          /\ domNow' = timestamp
          /\ prev' = timestamp
          /\ domConfetti' = swept.list
          /\ containerKids' = swept.kids
          /\ frameLog' = swept.log
          /\ frame' = IF again THEN nextHandle ELSE 0
          /\ loopPending' = again
          /\ bodyHasContainer' = (again /\ bodyHasContainer)
          /\ idleFrames' = IF SchedulerStopped /\ swept.list = <<>> /\ again
                             THEN idleFrames + 1 ELSE idleFrames
  /\ nextHandle' = nextHandle + 1
  /\ UNCHANGED <<started, timer, spawnPending, spawned>>
  /\ UNCHANGED <<poissonVars, itemVars, canvasVars, resizeVars>>

(***************************************************************************)
(* Specifications                                                          *)
(***************************************************************************)
\* createPoisson() entered; no Confetti made on its own yet; the state
\* new ConfettiManager() leaves in a 360 x 640 window of pixel ratio 2 (the
\* canvas sized, no particle, the resize listener debounced and idle, one
\* frame requested); enableBackgroundConfetti() not yet called
Init ==
  /\ domain = PoissonStart.domain
  /\ measure = PoissonStart.measure
  /\ spline = PoissonStart.spline
  /\ poissonPc = "while"
  /\ splineOut = <<>>
  /\ item = NoItem
  /\ itemNow = 0
  /\ window = [innerWidth |-> 360, innerHeight |-> 640,
               devicePixelRatio |-> 2]
  /\ canvas = resizeCanvas(window)
  /\ confetti = <<>>
  /\ lastUpdated = 0
  /\ now = 0
  /\ rafPending = 1
  /\ drawLog = <<>>
  /\ frameNo = 0
  /\ nextId = 1
  /\ bursts = 0
  /\ lastCall = [op |-> "none", count |-> 0, before |-> 0]
  /\ timeout = 0
  /\ timers = {}
  /\ nextTimer = 1
  /\ calls = <<>>
  /\ invoked = <<>>
  /\ started = FALSE
  /\ bodyHasContainer = FALSE
  /\ containerKids = <<>>
  /\ domConfetti = <<>>
  /\ timer = 0
  /\ spawnPending = FALSE
  /\ frame = 0
  /\ loopPending = FALSE
  /\ prev = 0
  /\ domNow = 0
  /\ nextHandle = 1
  /\ spawned = 0
  /\ frameLog = <<>>
  /\ idleFrames = 0

\* createPoisson() under every sequence of darts
PoissonNext == ThrowDart \/ ReturnSpline

SpecPoisson == Init /\ [][PoissonNext]_vars

\* one Confetti under every sequence of updatePosition calls
ItemNext == ItemCreate \/ ItemUpdate \/ ItemOnload

SpecItem == Init /\ [][ItemNext]_vars

\* a ConfettiManager: bursts and frames
CanvasNext == AddConfetti \/ ResetAndStart \/ Loop \/ ImageLoads

SpecCanvas == Init /\ [][CanvasNext]_vars

\* a ConfettiManager: window resizes and the debounce timer
ResizeNext == WindowResize \/ TimerFires \/ TimePasses

SpecResize == Init /\ [][ResizeNext]_vars

\* the background confetti: poof, its spawn timer and its frames
DomNext == Poof \/ AddConfetto \/ DomLoop

SpecDom == Init /\ [][DomNext]_vars

\* the whole page
Next == PoissonNext \/ ItemNext \/ CanvasNext \/ ResizeNext \/ DomNext

(***************************************************************************)
(* Properties                                                              *)
(***************************************************************************)
Ascending(s) == \A k \in 1 .. (Len(s) - 1) : s[k] < s[k + 1]

MinGap(s, g) == \A k \in 1 .. (Len(s) - 1) : s[k + 1] - s[k] >= g

\* C1: once the spawn timer produces no more particles and no particle is
\* live, the frame loop stops and the container is detached within a bounded
\* number of frames: at most MaxIdleFrames frames find that state and ask
\* for another frame.
DomTeardownWithinBound == idleFrames <= MaxIdleFrames

\* C2, as claimed: the spline createPoisson returns is ascending, starts at
\* 0, ends at 1, and adjacent samples are at least 2 * radius apart.
SplineSpacingTwoRadii ==
  poissonPc = "done" =>
    /\ Ascending(splineOut)
    /\ splineOut[1] = 0
    /\ splineOut[Len(splineOut)] = One
    /\ MinGap(splineOut, radius2)

\* C2, amended: the spline createPoisson returns is ascending, starts at 0,
\* ends at 1, and adjacent samples are at least radius apart.
SplineSpacingOneRadius ==
  poissonPc = "done" =>
    /\ Ascending(splineOut)
    /\ splineOut[1] = 0
    /\ splineOut[Len(splineOut)] = One
    /\ MinGap(splineOut, radius)

\* a returned spline with darts in it and two samples closer than 2 * radius
SplineReturnedTight ==
  /\ poissonPc = "done"
  /\ Len(splineOut) > 3
  /\ ~MinGap(splineOut, radius2)

\* C3: speed.x of a Confetti never drops below its finalSpeedX, whatever
\* updatePosition calls it has had.
DragFloor == item # NoItem => item.speed.x >= item.finalSpeedX

\* the particles the last addConfetti or resetAndStart call pushed
Batch(list, call) == SubSeq(list, call.before + 1, Len(list))

Going(list, direction) ==
  Cardinality({k \in DOMAIN list : list[k].direction = direction})

\* every particle of a batch starts from its edge at 5/7 of the height
BatchOrigins(batch, win) ==
  \A k \in DOMAIN batch :
    /\ batch[k].direction \in {"left", "right"}
    /\ batch[k].direction = "right" => batch[k].origin.x = 0
    /\ batch[k].direction = "left" =>
         batch[k].origin.x = win.innerWidth * 1000
    /\ 7 * batch[k].origin.y <= 5 * win.innerHeight * 1000
    /\ 5 * win.innerHeight * 1000 < 7 * (batch[k].origin.y + 1)

\* addConfetti keeps the particles that were live
BatchKeepsLive(list, listAfter, call) ==
  call.op = "addConfetti" => SubSeq(listAfter, 1, call.before) = list

\* C4, as claimed: a burst of count n pushes exactly n particles, n/2 going
\* right from x = 0 and n/2 going left from x = innerWidth, all from
\* y = 5 * innerHeight / 7.
BurstExactCount ==
  [][bursts' = bursts + 1 =>
       LET n == lastCall'.count
           batch == Batch(confetti', lastCall')
       IN /\ Len(batch) = n
          /\ 2 * Going(batch, "right") = n
          /\ 2 * Going(batch, "left") = n
          /\ BatchOrigins(batch, window)
          /\ BatchKeepsLive(confetti, confetti', lastCall')]_vars

\* C4, amended: a burst of count n >= 0 pushes ceil(n/2) particles going
\* right from x = 0 and ceil(n/2) going left from x = innerWidth, all from
\* y = 5 * innerHeight / 7: n particles for an even n, n + 1 for an odd n
\* (296 for the default 295).
BurstRoundedUpCount ==
  [][bursts' = bursts + 1 =>
       LET n == lastCall'.count
           half == (n + 1) \div 2
           batch == Batch(confetti', lastCall')
       IN /\ Len(batch) = 2 * half
          /\ Len(batch) = IF n % 2 = 0 THEN n ELSE n + 1
          /\ Going(batch, "right") = half
          /\ Going(batch, "left") = half
          /\ BatchOrigins(batch, window)
          /\ BatchKeepsLive(confetti, confetti', lastCall')]_vars

\* a default burst (count 295) pushed onto live particles
DefaultBurstOnLive ==
  /\ lastCall.op = "addConfetti"
  /\ lastCall.count = 295
  /\ lastCall.before > 0
  /\ Len(confetti) = lastCall.before + 296

\* a Confetti created without emoji or icon
PlainMode(c) == c.emoji = Null /\ c.svgImage = Null

DrawnOnce(log) == [k \in DOMAIN log |-> <<log[k].id, log[k].updates>>]

\* the particle, update count and height of each draw call, in order
DrawnAbove(log) ==
  [k \in DOMAIN log |-> <<log[k].id, log[k].updates, log[k].y>>]

\* the particle, update count and height of each live particle, in order
KeptOnce(list) ==
  [k \in DOMAIN list |-> <<list[k].id, list[k].updates, list[k].position.y>>]

\* C6: a frame of the canvas loop updates and then draws every live
\* particle exactly once, and keeps exactly those whose updated position.y
\* is below canvas.height + 100; a removed particle is neither updated nor
\* drawn again.
FrameUpdatesDrawsFilters ==
  [][frameNo' = frameNo + 1 =>
       /\ DrawnOnce(drawLog') = [k \in DOMAIN confetti |->
                                  <<confetti[k].id, confetti[k].updates + 1>>]
       /\ KeptOnce(confetti')
            = SelectSeq(DrawnAbove(drawLog'),
                        LAMBDA e : e[3] < (canvas.height + 100) * 1000)
       /\ \A j \in DOMAIN confetti' :
            confetti'[j].updates = frameNo' - confetti'[j].born]_vars

\* a frame has just drawn some particles it kept and some it removed
FrameKeptSomeRemovedSome ==
  /\ frameNo > 0
  /\ confetti # <<>>
  /\ Len(drawLog) > Len(confetti)
  /\ \E k \in DOMAIN drawLog : drawLog[k].y >= (canvas.height + 100) * 1000

\* C7: the canvas render loop never stops: after every frame, whether or
\* not particles are live, exactly one frame callback is pending.
LoopAlwaysPending == rafPending = 1

\* frames have run, a burst has come and gone, and no particle is live
LoopRunsEmpty ==
  /\ frameNo > 1
  /\ bursts > 0
  /\ lastCall.count > 0
  /\ confetti = <<>>
  /\ rafPending = 1

\* the calls that end a burst: the last call, or one followed by a call at
\* least ResizeDelay later
BurstEnds ==
  {k \in DOMAIN calls :
     k = Len(calls) \/ calls[k + 1].at - calls[k].at >= ResizeDelay}

\* the i-th call that ends a burst
NthBurstEnd(i) ==
  CHOOSE k \in BurstEnds : Cardinality({j \in BurstEnds : j <= k}) = i

Outers(list) == [k \in DOMAIN list |-> list[k].outer]

\* C9: a frame of the background loop calls update exactly once on every
\* live particle and removes exactly those that reported done, from the
\* list and from the container, skipping and revisiting none; after every
\* callback the container's children are the elements of the live particles.
DomFrameSweep ==
  [][/\ containerKids' = Outers(domConfetti')
     /\ domNow' # domNow =>
          LET n == Len(domConfetti)
              keep == {k \in 1 .. n : ~frameLog'[n + 1 - k].done}
          IN /\ Len(frameLog') = n
             /\ \A k \in 1 .. n :
                  frameLog'[n + 1 - k].outer = domConfetti[k].outer
             /\ Len(domConfetti') = Cardinality(keep)
             /\ \A k \in 1 .. n :
                  LET j == Cardinality({i \in keep : i <= k})
                  IN IF k \in keep
                       THEN /\ domConfetti'[j].outer = domConfetti[k].outer
                            /\ domConfetti'[j].updates
                                 = domConfetti[k].updates + 1
                       ELSE \A m \in DOMAIN domConfetti' :
                              domConfetti'[m].outer # domConfetti[k].outer]_vars

\* a frame has just removed a particle while a newer one stays live
DomRemovedOlderKeptNewer ==
  /\ Len(frameLog) > 1
  /\ domConfetti # <<>>
  /\ \E k \in 1 .. (Len(frameLog) - 1) :
       ~frameLog[k].done /\ frameLog[k + 1].done

\* a Confetti created with an emoji list or with an icon URL
SpecialMode(c) == c.emoji # Null \/ c.svgImage # Null

\* C10: a Confetti created with an emoji list or an icon URL keeps its
\* creation-time rotationSpeed, radius.y and radiusYDirection through every
\* updatePosition call, before and after the icon has loaded.
SpecialModeFrozen ==
  (item # NoItem /\ SpecialMode(item)) =>
    /\ item.rotationSpeed = 10000
    /\ item.radius.y = item.initialRadius
    /\ item.radiusYDirection = "down"

====
